---- MODULE Spec2Model ----
(***************************************************************************)
(* Model of src/FanAccessory.ts (homebridge-dreo): the per-device cache    *)
(* fanState, the three characteristic set-handlers that write control      *)
(* frames to the shared websocket, and the 'message' listener that folds   *)
(* inbound report frames into the cache.                                   *)
(*                                                                         *)
(* One FanAccessory object exists per entry of DOMAIN fanState; all of     *)
(* them listen on the same websocket, so one inbound frame is handed to    *)
(* every listener.  The 'timestamp' field of outbound frames (Date.now())  *)
(* is not modelled: nothing reads it.                                      *)
(***************************************************************************)
EXTENDS Integers, Sequences, FiniteSets, TLC

VARIABLES
    fanState,   \* sn -> [On, Speed, Swing, MaxSpeed]   (FanAccessory.fanState)
    hasSwing,   \* sn -> BOOLEAN: state.shakehorizon !== undefined at construction
    outbox,     \* frames handed to ws.send by the last step, in order
    raised,     \* the last step threw to its caller
    lastOp      \* the last step: handler name, device, argument, inbound frame

vars == <<fanState, hasSwing, outbox, raised, lastOp>>

----------------------------------------------------------------------------
(* Bounds and input domains *)

\* largest MaxSpeed a device descriptor carries in the model
MaxMaxSpeed == 12

\* inbound windlevel values range over 0..MaxMaxSpeed+LevelSlack, so a device
\* can report a level above its own MaxSpeed
LevelSlack == 1

\* HomeKit RotationSpeed is a percentage
MaxPercent == 100

Percents == 0..MaxPercent

\* a reduced request alphabet for the specifications that exercise every
\* handler at once: the two ends, one low and one middle percentage
FewPercents == {0, 17, 50, MaxPercent}

LevelsIn == 0..(MaxMaxSpeed + LevelSlack)

\* a reduced level alphabet: no level, the lowest, and one above every range
FewLevels == {0, 1, MaxMaxSpeed + LevelSlack}

\* the targets of the bucket table, lines 127-139
SnapPoints == {20, 40, 60, 80, 100}

\* HomeKit Active / SwingMode characteristic values
CharValues == {0, 1}

Serials == {"sn1", "sn2"}

ReportMethods == {"control-report", "control-reply", "report"}

\* "other" stands for any method string outside ReportMethods
Methods == ReportMethods \cup {"other"}

----------------------------------------------------------------------------
(* Pure helpers *)

\* rounding up written as truncation plus one
Ceil_FloorPlusOne(n, d) == (n \div d) + 1

\* Math.ceil(n / d) for n >= 0, d > 0
Ceil(n, d) == (n + d - 1) \div d

\* Boolean(value) on a numeric characteristic value
ToBoolean(v) == v # 0

\* the bucket table with the second target written 30 instead of 40
Quantize_SecondTarget30(converted) ==
    IF converted > 10 /\ converted <= 30 THEN 20
    ELSE IF converted > 30 /\ converted <= 50 THEN 30
    ELSE IF converted > 50 /\ converted <= 70 THEN 60
    ELSE IF converted > 70 /\ converted <= 90 THEN 80
    ELSE IF converted > 90 /\ converted <= 100 THEN 100
    ELSE converted

\* the bucket table with the first lower bound written 1 instead of 10
Quantize_FirstBucketFromOne(converted) ==
    IF converted > 1 /\ converted <= 30 THEN 20
    ELSE IF converted > 30 /\ converted <= 50 THEN 40
    ELSE IF converted > 50 /\ converted <= 70 THEN 60
    ELSE IF converted > 70 /\ converted <= 90 THEN 80
    ELSE IF converted > 90 /\ converted <= 100 THEN 100
    ELSE converted

\* lines 126-140: the bucket table applied to the converted level
Quantize(converted) ==
    IF converted > 10 /\ converted <= 30 THEN 20
    ELSE IF converted > 30 /\ converted <= 50 THEN 40
    ELSE IF converted > 50 /\ converted <= 70 THEN 60
    ELSE IF converted > 70 /\ converted <= 90 THEN 80
    ELSE IF converted > 90 /\ converted <= 100 THEN 100
    ELSE converted

\* line 123: level implied by the cached percentage
CurrLevel(d) == Ceil(fanState[d].Speed * fanState[d].MaxSpeed, MaxPercent)

\* lines 124-140: level requested by the consumer, after the bucket table
ConvertedLevel(d, value) == Quantize(Ceil(value * fanState[d].MaxSpeed, MaxPercent))

\* lines 39 and 86: percentage shown for a device level
LevelToPercent(level, maxSpeed) == Ceil(level * MaxPercent, maxSpeed)

----------------------------------------------------------------------------
(* Frames *)

NoMsg == [kind |-> "none", devicesn |-> "", method |-> "", key |-> "",
          on |-> FALSE, level |-> 0]

\* message.data is not JSON: JSON.parse throws
BadMsgs == {[kind |-> "unparseable", devicesn |-> "", method |-> "", key |-> "",
             on |-> FALSE, level |-> 0]}

\* JSON without a 'reported' member
NoReportedMsgs(serials) ==
    [kind : {"noreported"}, devicesn : serials, method : Methods, key : {""},
     on : {FALSE}, level : {0}]

BoolMsgs(serials) ==
    [kind : {"ok"}, devicesn : serials, method : Methods,
     key : {"poweron", "shakehorizon"}, on : BOOLEAN, level : {0}]

LevelMsgs(serials, levels) ==
    [kind : {"ok"}, devicesn : serials, method : Methods,
     key : {"windlevel"}, on : {FALSE}, level : levels]

\* key "other" stands for any first key of data.reported outside the three
\* cases, the empty object included (Object.keys({})[0] is undefined)
OtherKeyMsgs(serials) ==
    [kind : {"ok"}, devicesn : serials, method : Methods,
     key : {"other"}, on : {FALSE}, level : {0}]

Msgs(serials, levels) ==
    BadMsgs \cup NoReportedMsgs(serials) \cup BoolMsgs(serials)
        \cup LevelMsgs(serials, levels) \cup OtherKeyMsgs(serials)

\* lines 106-111
PowerFrame(d, value) ==
    [devicesn |-> d, method |-> "control",
     params |-> [poweron |-> ToBoolean(value)]]

\* lines 147-156
SpeedFrame(d, converted) ==
    [devicesn |-> d, method |-> "control",
     params |-> [poweron |-> TRUE, windlevel |-> converted]]

\* lines 169-174
SwingFrame(d, value) ==
    [devicesn |-> d, method |-> "control",
     params |-> [shakehorizon |-> ToBoolean(value)]]

Op(name, d, value, m) == [op |-> name, sn |-> d, value |-> value, msg |-> m]

----------------------------------------------------------------------------
(* Construction *)

\* lines 13-18, 35-39, 62-68: the cache after the constructor ran on a
\* snapshot with poweron = on, windlevel = level, shakehorizon = swing (when
\* the device has one)
Constructed(maxSpeed, on, level, supports, swing) ==
    [On |-> on,
     Speed |-> LevelToPercent(level, maxSpeed),
     Swing |-> IF supports THEN swing ELSE FALSE,
     MaxSpeed |-> maxSpeed]

\* maxSpeeds[d] is the set of MaxSpeed values device d may be configured
\* with, snapLevels the windlevel values a start-up snapshot may carry (a
\* device reports a level of its own range), bools the values of its flags
InitOf(maxSpeeds, snapLevels, bools) ==
    /\ \E boot \in [DOMAIN maxSpeeds ->
                      [ms : UNION {maxSpeeds[d] : d \in DOMAIN maxSpeeds},
                       lv : snapLevels, on : bools, sup : bools, sw : bools]] :
         /\ \A d \in DOMAIN maxSpeeds :
                boot[d].ms \in maxSpeeds[d] /\ boot[d].lv <= boot[d].ms
         /\ hasSwing = [d \in DOMAIN maxSpeeds |-> boot[d].sup]
         /\ fanState = [d \in DOMAIN maxSpeeds |->
                Constructed(boot[d].ms, boot[d].on, boot[d].lv,
                            boot[d].sup, boot[d].sw)]
    /\ outbox = <<>>
    /\ raised = FALSE
    /\ lastOp = Op("constructor", "", 0, NoMsg)

----------------------------------------------------------------------------
(* Outbound handlers.  ok is the outcome of ws.send: TRUE when the frame   *)
(* was accepted, FALSE when send threw.                                    *)

\* ws.send(frame) as the statement of a handler: on failure the exception
\* leaves the handler at that statement
Send(frame, ok) ==
    /\ outbox' = IF ok THEN <<frame>> ELSE <<>>
    /\ raised' = ~ok

NoSend ==
    /\ outbox' = <<>>
    /\ raised' = FALSE

\* handleActiveSet without the duplicate check of line 104
handleActiveSet_NoDedup(d, value, ok) ==
    /\ lastOp' = Op("handleActiveSet", d, value, NoMsg)
    /\ Send(PowerFrame(d, value), ok)
    /\ UNCHANGED <<fanState, hasSwing>>

\* handleActiveSet caching the requested value once the frame is out
handleActiveSet_Optimistic(d, value, ok) ==
    /\ lastOp' = Op("handleActiveSet", d, value, NoMsg)
    /\ IF fanState[d].On # ToBoolean(value)
       THEN /\ Send(PowerFrame(d, value), ok)
            /\ fanState' = IF ok THEN [fanState EXCEPT ![d].On = ToBoolean(value)]
                           ELSE fanState
       ELSE ok /\ NoSend /\ UNCHANGED fanState
    /\ UNCHANGED hasSwing

\* lines 101-113
handleActiveSet(d, value, ok) ==
    /\ lastOp' = Op("handleActiveSet", d, value, NoMsg)
    /\ IF fanState[d].On # ToBoolean(value)
       THEN Send(PowerFrame(d, value), ok)
       ELSE ok /\ NoSend    \* nothing is sent: the socket's state plays no part
    /\ UNCHANGED <<fanState, hasSwing>>

\* setRotationSpeed without the zero check of line 145
setRotationSpeed_SendsZero(d, value, ok) ==
    /\ lastOp' = Op("setRotationSpeed", d, value, NoMsg)
    /\ IF CurrLevel(d) # ConvertedLevel(d, value)
       THEN /\ Send(SpeedFrame(d, ConvertedLevel(d, value)), ok)
            /\ fanState' = IF ok THEN [fanState EXCEPT ![d].Speed = value]
                           ELSE fanState
       ELSE /\ ok
            /\ NoSend
            /\ fanState' = [fanState EXCEPT ![d].Speed = value]
    /\ UNCHANGED hasSwing

\* setRotationSpeed with line 160 moved inside the branch that sends
setRotationSpeed_WriteOnSend(d, value, ok) ==
    /\ lastOp' = Op("setRotationSpeed", d, value, NoMsg)
    /\ IF CurrLevel(d) # ConvertedLevel(d, value) /\ ConvertedLevel(d, value) # 0
       THEN /\ Send(SpeedFrame(d, ConvertedLevel(d, value)), ok)
            /\ fanState' = IF ok THEN [fanState EXCEPT ![d].Speed = value]
                           ELSE fanState
       ELSE /\ ok
            /\ NoSend
            /\ UNCHANGED fanState
    /\ UNCHANGED hasSwing

\* setRotationSpeed with line 160 moved before the send
setRotationSpeed_WriteFirst(d, value, ok) ==
    /\ lastOp' = Op("setRotationSpeed", d, value, NoMsg)
    /\ fanState' = [fanState EXCEPT ![d].Speed = value]
    /\ IF CurrLevel(d) # ConvertedLevel(d, value) /\ ConvertedLevel(d, value) # 0
       THEN Send(SpeedFrame(d, ConvertedLevel(d, value)), ok)
       ELSE ok /\ NoSend
    /\ UNCHANGED hasSwing

\* setRotationSpeed without the comparison of line 143
setRotationSpeed_NoDedup(d, value, ok) ==
    /\ lastOp' = Op("setRotationSpeed", d, value, NoMsg)
    /\ IF ConvertedLevel(d, value) # 0
       THEN /\ Send(SpeedFrame(d, ConvertedLevel(d, value)), ok)
            /\ fanState' = IF ok THEN [fanState EXCEPT ![d].Speed = value]
                           ELSE fanState
       ELSE /\ ok
            /\ NoSend
            /\ fanState' = [fanState EXCEPT ![d].Speed = value]
    /\ UNCHANGED hasSwing

\* setRotationSpeed caching the percentage of the level it sent instead of
\* the raw value at line 160
setRotationSpeed_CacheLevel(d, value, ok) ==
    /\ lastOp' = Op("setRotationSpeed", d, value, NoMsg)
    /\ IF CurrLevel(d) # ConvertedLevel(d, value) /\ ConvertedLevel(d, value) # 0
       THEN /\ Send(SpeedFrame(d, ConvertedLevel(d, value)), ok)
            /\ fanState' =
                 IF ok
                 THEN [fanState EXCEPT ![d].Speed =
                         LevelToPercent(ConvertedLevel(d, value),
                                        fanState[d].MaxSpeed)]
                 ELSE fanState
       ELSE /\ ok
            /\ NoSend
            /\ fanState' = [fanState EXCEPT ![d].Speed = value]
    /\ UNCHANGED hasSwing

\* lines 121-161; a send that throws (line 147) leaves before line 160
setRotationSpeed(d, value, ok) ==
    /\ lastOp' = Op("setRotationSpeed", d, value, NoMsg)
    /\ IF CurrLevel(d) # ConvertedLevel(d, value) /\ ConvertedLevel(d, value) # 0
       THEN /\ Send(SpeedFrame(d, ConvertedLevel(d, value)), ok)
            /\ fanState' = IF ok THEN [fanState EXCEPT ![d].Speed = value]
                           ELSE fanState
       ELSE /\ ok
            /\ NoSend
            /\ fanState' = [fanState EXCEPT ![d].Speed = value]
    /\ UNCHANGED hasSwing

\* lines 168-175; the handler is registered only when the device has a
\* shakehorizon state (lines 62-66)
setSwingMode(d, value, ok) ==
    /\ hasSwing[d]
    /\ lastOp' = Op("setSwingMode", d, value, NoMsg)
    /\ Send(SwingFrame(d, value), ok)
    /\ UNCHANGED <<fanState, hasSwing>>

\* lines 116-118, 163-165, 177-179
handleActiveGet(d) == fanState[d].On
getRotationSpeed(d) == fanState[d].Speed
getSwingMode(d) == fanState[d].Swing

----------------------------------------------------------------------------
(* Inbound listener, lines 71-97 *)

\* the listener of device d throws on frame m: JSON.parse (line 72) or
\* Object.keys(undefined) (line 80)
ListenerThrows(d, m) ==
    \/ m.kind = "unparseable"
    \/ /\ m.kind = "noreported"
       /\ m.devicesn = d
       /\ m.method \in ReportMethods

\* the listener without the method test of line 85
Listener_AnyMethod(d, m) ==
    IF m.kind # "ok" \/ m.devicesn # d \/ m.method \notin ReportMethods
    THEN fanState[d]
    ELSE CASE m.key = "poweron" -> [fanState[d] EXCEPT !.On = m.on]
           [] m.key = "windlevel" ->
                [fanState[d] EXCEPT
                    !.Speed = LevelToPercent(m.level, fanState[d].MaxSpeed)]
           [] m.key = "shakehorizon" -> [fanState[d] EXCEPT !.Swing = m.on]
           [] OTHER -> fanState[d]

\* the listener without the serial test of line 75
Listener_NoSerialCheck(d, m) ==
    IF m.kind # "ok" \/ m.method \notin ReportMethods
    THEN fanState[d]
    ELSE CASE m.key = "poweron" -> [fanState[d] EXCEPT !.On = m.on]
           [] m.key = "windlevel" ->
                IF m.method = "report"
                THEN [fanState[d] EXCEPT
                        !.Speed = LevelToPercent(m.level, fanState[d].MaxSpeed)]
                ELSE fanState[d]
           [] m.key = "shakehorizon" -> [fanState[d] EXCEPT !.Swing = m.on]
           [] OTHER -> fanState[d]

\* the listener rebuilding the cache from its defaults (lines 13-18) on a
\* power frame
Listener_Rebuild(d, m) ==
    IF m.kind # "ok" \/ m.devicesn # d \/ m.method \notin ReportMethods
    THEN fanState[d]
    ELSE CASE m.key = "poweron" ->
                [On |-> m.on, Speed |-> 1, Swing |-> FALSE,
                 MaxSpeed |-> fanState[d].MaxSpeed]
           [] m.key = "windlevel" ->
                IF m.method = "report"
                THEN [fanState[d] EXCEPT
                        !.Speed = LevelToPercent(m.level, fanState[d].MaxSpeed)]
                ELSE fanState[d]
           [] m.key = "shakehorizon" -> [fanState[d] EXCEPT !.Swing = m.on]
           [] OTHER -> fanState[d]

\* the listener without the method test of line 79
Listener_NoMethodCheck(d, m) ==
    IF m.kind # "ok" \/ m.devicesn # d
    THEN fanState[d]
    ELSE CASE m.key = "poweron" -> [fanState[d] EXCEPT !.On = m.on]
           [] m.key = "windlevel" ->
                IF m.method = "report"
                THEN [fanState[d] EXCEPT
                        !.Speed = LevelToPercent(m.level, fanState[d].MaxSpeed)]
                ELSE fanState[d]
           [] m.key = "shakehorizon" -> [fanState[d] EXCEPT !.Swing = m.on]
           [] OTHER -> fanState[d]

\* the cache of device d after its listener ran on frame m
Listener(d, m) ==
    IF m.kind # "ok" \/ m.devicesn # d \/ m.method \notin ReportMethods
    THEN fanState[d]
    ELSE CASE m.key = "poweron" -> [fanState[d] EXCEPT !.On = m.on]
           [] m.key = "windlevel" ->
                IF m.method = "report"
                THEN [fanState[d] EXCEPT
                        !.Speed = LevelToPercent(m.level, fanState[d].MaxSpeed)]
                ELSE fanState[d]
           [] m.key = "shakehorizon" -> [fanState[d] EXCEPT !.Swing = m.on]
           [] OTHER -> fanState[d]

\* the websocket emits one 'message' event; every accessory's listener runs
onMessage(m) ==
    /\ lastOp' = Op("message", "", 0, m)
    /\ fanState' = [d \in DOMAIN fanState |-> Listener(d, m)]
    /\ raised' = \E d \in DOMAIN fanState : ListenerThrows(d, m)
    /\ outbox' = <<>>
    /\ UNCHANGED hasSwing

----------------------------------------------------------------------------
(* Specifications *)

SetPowerStep == \E d \in DOMAIN fanState, v \in CharValues, ok \in BOOLEAN :
                    handleActiveSet(d, v, ok)

SetSwingStep == \E d \in DOMAIN fanState, v \in CharValues, ok \in BOOLEAN :
                    setSwingMode(d, v, ok)

SetSpeedStep(percents, oks) ==
    \E d \in DOMAIN fanState, p \in percents, ok \in oks :
        setRotationSpeed(d, p, ok)

MessageStep(msgs) == \E m \in msgs : onMessage(m)

\* one accessory on the socket, every handler, every frame shape
Init == InitOf([d \in {"sn1"} |-> 1..MaxMaxSpeed], 1..MaxMaxSpeed, BOOLEAN)

Next ==
    \/ SetPowerStep
    \/ SetSpeedStep(FewPercents, BOOLEAN)
    \/ SetSwingStep
    \/ MessageStep(Msgs(Serials, FewLevels))

Spec == Init /\ [][Next]_vars

\* the speed register alone, on an open socket: every percentage, every level
\* frame addressed to the accessory
InitSpeed == InitOf([d \in {"sn1"} |-> 1..MaxMaxSpeed], 1..MaxMaxSpeed, {FALSE})

NextSpeed ==
    \/ SetSpeedStep(Percents, {TRUE})
    \/ MessageStep(LevelMsgs({"sn1"}, LevelsIn))

SpecSpeed == InitSpeed /\ [][NextSpeed]_vars

\* an accessory whose levels are the bucket targets themselves (MaxSpeed 100),
\* on an open socket: the level requested for a percentage is the percentage,
\* so the bucket table sees every value 0..100
InitQuant == InitOf([d \in {"sn1"} |-> {MaxPercent}], SnapPoints, {FALSE})

NextQuant ==
    \/ SetSpeedStep(Percents, {TRUE})
    \/ MessageStep(LevelMsgs({"sn1"}, SnapPoints))

SpecQuant == InitQuant /\ [][NextQuant]_vars

\* two accessories on one socket
InitShared ==
    InitOf([d \in Serials |-> IF d = "sn1" THEN {6} ELSE {MaxMaxSpeed}],
           {1}, BOOLEAN)

NextShared ==
    \/ SetPowerStep
    \/ SetSpeedStep(FewPercents, BOOLEAN)
    \/ SetSwingStep
    \/ MessageStep(Msgs(Serials, FewLevels))

SpecShared == InitShared /\ [][NextShared]_vars

----------------------------------------------------------------------------
(* Properties *)

SetOps == {"handleActiveSet", "setRotationSpeed", "setSwingMode"}

\* the frames of the last step that carry a windlevel
LevelFrames == {i \in 1..Len(outbox) : "windlevel" \in DOMAIN outbox[i].params}

\* C1: handleActiveSet(x) called while the cached power equals Boolean(x)
\* sends no frame and leaves the whole cache as it was.
C1_SetPowerSameValueIsNoop ==
    [][\A d \in DOMAIN fanState, v \in CharValues :
          (/\ lastOp' = Op("handleActiveSet", d, v, NoMsg)
           /\ fanState[d].On = ToBoolean(v))
          => (outbox' = <<>> /\ ~raised' /\ fanState' = fanState)]_vars

C1_Witness ==
    /\ lastOp.op = "handleActiveSet"
    /\ fanState[lastOp.sn].On = ToBoolean(lastOp.value)
    /\ outbox = <<>>
    /\ ~raised

\* C2: a step of handleActiveSet or setSwingMode leaves every cache field of
\* every accessory unchanged, frame sent or not; On and Swing change only in a
\* step that processes an inbound frame.
C2_PowerSwingSetNeverWriteCache ==
    [][/\ lastOp'.op \in {"handleActiveSet", "setSwingMode"}
          => fanState' = fanState
       /\ (\E d \in DOMAIN fanState :
              \/ fanState'[d].On # fanState[d].On
              \/ fanState'[d].Swing # fanState[d].Swing)
          => lastOp'.op = "message"]_vars

C2_Witness ==
    /\ lastOp.op = "handleActiveSet"
    /\ Len(outbox) = 1
    /\ outbox[1].params.poweron # fanState[lastOp.sn].On

\* C3: no frame sent by setRotationSpeed carries windlevel 0.
C3_SetSpeedNeverSendsLevelZero ==
    \A i \in LevelFrames : outbox[i].params.windlevel # 0

C3_Witness ==
    /\ lastOp.op = "setRotationSpeed"
    /\ lastOp.value = 0
    /\ ConvertedLevel(lastOp.sn, lastOp.value) = 0
    /\ outbox = <<>>
    /\ ~raised
    /\ fanState[lastOp.sn].Speed = 0

\* C4: after setRotationSpeed(percent) returned without throwing, the cached
\* Speed is the raw percent, whether a frame went out or not.
C4_SetSpeedCachesRawPercent ==
    (lastOp.op = "setRotationSpeed" /\ ~raised)
    => fanState[lastOp.sn].Speed = lastOp.value

\* the send was suppressed for a non-zero level, and the raw percent differs
\* from the percentage its level stands for
C4_Witness ==
    /\ lastOp.op = "setRotationSpeed"
    /\ ~raised
    /\ outbox = <<>>
    /\ ConvertedLevel(lastOp.sn, lastOp.value) # 0
    /\ fanState[lastOp.sn].Speed = lastOp.value
    /\ LevelToPercent(ConvertedLevel(lastOp.sn, lastOp.value),
                      fanState[lastOp.sn].MaxSpeed) # lastOp.value

\* C5: an inbound frame for this serial whose reported key is windlevel sets
\* Speed to ceil(level*100/MaxSpeed) when its method is "report" and leaves
\* Speed unchanged for every other method.
C5_LevelAppliedOnlyForReport ==
    [][\A d \in DOMAIN fanState :
          (/\ lastOp'.op = "message"
           /\ lastOp'.msg.kind = "ok"
           /\ lastOp'.msg.devicesn = d
           /\ lastOp'.msg.key = "windlevel")
          => IF lastOp'.msg.method = "report"
             THEN fanState'[d].Speed =
                     Ceil(lastOp'.msg.level * 100, fanState[d].MaxSpeed)
             ELSE fanState'[d].Speed = fanState[d].Speed]_vars

\* a control-reply carried a level that is not the cached one
C5_Witness ==
    /\ lastOp.op = "message"
    /\ lastOp.msg.kind = "ok"
    /\ lastOp.msg.devicesn = "sn1"
    /\ lastOp.msg.key = "windlevel"
    /\ lastOp.msg.method = "control-reply"
    /\ fanState["sn1"].Speed
         # Ceil(lastOp.msg.level * 100, fanState["sn1"].MaxSpeed)

\* C6: an inbound frame leaves the cache of every accessory whose serial is
\* not the frame's devicesn unchanged.
C6_OtherSerialNeverMutates ==
    [][\A d \in DOMAIN fanState :
          (lastOp'.op = "message" /\ lastOp'.msg.devicesn # d)
          => fanState'[d] = fanState[d]]_vars

\* a level report for sn2 was applied by sn2 and would have shown on sn1
C6_Witness ==
    /\ lastOp.op = "message"
    /\ lastOp.msg.kind = "ok"
    /\ lastOp.msg.devicesn = "sn2"
    /\ lastOp.msg.method = "report"
    /\ lastOp.msg.key = "windlevel"
    /\ fanState["sn2"].Speed
         = Ceil(lastOp.msg.level * 100, fanState["sn2"].MaxSpeed)
    /\ fanState["sn1"].Speed
         # Ceil(lastOp.msg.level * 100, fanState["sn1"].MaxSpeed)

\* C7: setSwingMode(x) called while the cached Swing equals Boolean(x) sends
\* no frame.
C7_SetSwingSameValueIsNoop ==
    [][\A d \in DOMAIN fanState, v \in CharValues :
          (/\ lastOp' = Op("setSwingMode", d, v, NoMsg)
           /\ fanState[d].Swing = ToBoolean(v))
          => outbox' = <<>>]_vars

\* C8: the cached Speed is in 0..100 in every reachable state.
C8_SpeedIsPercent ==
    \A d \in DOMAIN fanState : fanState[d].Speed \in 0..100

\* C9: every windlevel sent by setRotationSpeed lies in 1..MaxSpeed of the
\* accessory it is addressed to.
C9_SentLevelIsDeviceLevel ==
    \A i \in LevelFrames :
        outbox[i].params.windlevel \in 1..fanState[outbox[i].devicesn].MaxSpeed

C11_MalformedFrameIsDropped ==
    [][(lastOp'.op = "message" /\ lastOp'.msg.kind \in {"unparseable", "noreported"})
       => (~raised' /\ fanState' = fanState)]_vars

\* C12: setRotationSpeed(percent) on an open socket sends exactly when the
\* bucketed level of percent is non-zero and differs from
\* ceil(Speed*MaxSpeed/100); it then sends one frame, addressed to the
\* accessory's serial, with params {poweron: true, windlevel: that level}.
C12_SetSpeedSendsIffLevelChanges ==
    [][lastOp'.op = "setRotationSpeed"
       => LET d == lastOp'.sn
              cur == Ceil(fanState[d].Speed * fanState[d].MaxSpeed, 100)
              req == Quantize(Ceil(lastOp'.value * fanState[d].MaxSpeed, 100))
          IN  IF req # cur /\ req # 0
              THEN outbox' = <<[devicesn |-> d, method |-> "control",
                                params |-> [poweron |-> TRUE,
                                            windlevel |-> req]]>>
              ELSE outbox' = <<>>]_vars

\* one frame went out, to the accessory's serial, with the requested level
C12_Witness ==
    /\ lastOp.op = "setRotationSpeed"
    /\ Len(outbox) = 1
    /\ outbox[1].devicesn = lastOp.sn
    /\ outbox[1].params.poweron
    /\ outbox[1].params.windlevel = ConvertedLevel(lastOp.sn, lastOp.value)

\* C13: processing one inbound frame changes at most one cache field of an
\* accessory: a poweron frame leaves Speed and Swing, a windlevel frame leaves
\* On and Swing, a shakehorizon frame leaves On and Speed; MaxSpeed never
\* changes.
C13_OneFieldPerFrame ==
    [][lastOp'.op = "message"
       => \A d \in DOMAIN fanState :
            LET k == lastOp'.msg.key
                onSame == fanState'[d].On = fanState[d].On
                speedSame == fanState'[d].Speed = fanState[d].Speed
                swingSame == fanState'[d].Swing = fanState[d].Swing
            IN  /\ fanState'[d].MaxSpeed = fanState[d].MaxSpeed
                /\ k = "poweron" => (speedSame /\ swingSame)
                /\ k = "windlevel" => (onSame /\ swingSame)
                /\ k = "shakehorizon" => (onSame /\ speedSame)
                /\ (onSame /\ speedSame) \/ (onSame /\ swingSame)
                     \/ (speedSame /\ swingSame)]_vars

\* a power-off frame was applied while Swing and Speed hold other values
\* than the defaults of lines 13-18
C13_Witness ==
    /\ lastOp.op = "message"
    /\ lastOp.msg.kind = "ok"
    /\ lastOp.msg.devicesn = "sn1"
    /\ lastOp.msg.method \in ReportMethods
    /\ lastOp.msg.key = "poweron"
    /\ fanState["sn1"].On = lastOp.msg.on
    /\ fanState["sn1"].Swing
    /\ fanState["sn1"].Speed # 1

\* C14: a well-formed inbound frame for this serial whose method is outside
\* the three report methods, or whose reported key is none of poweron,
\* windlevel, shakehorizon, changes no cache and sends nothing.
C14_UnknownMethodOrKeyIgnored ==
    [][(/\ lastOp'.op = "message"
        /\ lastOp'.msg.kind = "ok"
        /\ lastOp'.msg.devicesn \in DOMAIN fanState
        /\ \/ lastOp'.msg.method \notin {"control-report", "control-reply", "report"}
           \/ lastOp'.msg.key \notin {"poweron", "windlevel", "shakehorizon"})
       => (fanState' = fanState /\ outbox' = <<>>)]_vars

\* a frame with an unknown method carried a power value other than the cached
C14_Witness ==
    /\ lastOp.op = "message"
    /\ lastOp.msg.kind = "ok"
    /\ lastOp.msg.devicesn = "sn1"
    /\ lastOp.msg.method = "other"
    /\ lastOp.msg.key = "poweron"
    /\ fanState["sn1"].On # lastOp.msg.on
    /\ outbox = <<>>

\* C15: in every step the cached Speed of an accessory becomes p after a
\* setRotationSpeed(p) that returned, ceil(L*100/MaxSpeed) after a "report"
\* frame for its serial with windlevel L, and keeps its value in every other
\* step, so it always equals the most recent of these writes.
C15_SpeedLastWriteWins ==
    [][\A d \in DOMAIN fanState :
          fanState'[d].Speed =
            IF lastOp'.op = "setRotationSpeed" /\ lastOp'.sn = d /\ ~raised'
            THEN lastOp'.value
            ELSE IF /\ lastOp'.op = "message"
                    /\ lastOp'.msg.kind = "ok"
                    /\ lastOp'.msg.devicesn = d
                    /\ lastOp'.msg.method = "report"
                    /\ lastOp'.msg.key = "windlevel"
            THEN Ceil(lastOp'.msg.level * 100, fanState[d].MaxSpeed)
            ELSE fanState[d].Speed]_vars

\* a power frame arrived while the cache holds a requested percentage that no
\* level of the device stands for
C15_Witness ==
    /\ lastOp.op = "message"
    /\ lastOp.msg.kind = "ok"
    /\ lastOp.msg.devicesn = "sn1"
    /\ lastOp.msg.key = "poweron"
    /\ lastOp.msg.method = "control-reply"
    /\ fanState["sn1"].Speed = 50
    /\ \A l \in LevelsIn : Ceil(l * 100, fanState["sn1"].MaxSpeed) # 50

\* C16: on an accessory with MaxSpeed <= 10 every frame setRotationSpeed
\* sends carries windlevel ceil(percent*MaxSpeed/100); with MaxSpeed 6 and
\* cached Speed 17, setRotationSpeed(50) sends {poweron: true, windlevel: 3}
\* and caches 50, and setRotationSpeed(75) sends windlevel 5.
C16_SmallMaxSpeedPassesThrough ==
    [][lastOp'.op = "setRotationSpeed"
       => LET d == lastOp'.sn
              p == lastOp'.value
              M == fanState[d].MaxSpeed
          IN  /\ (M <= 10 /\ outbox' # <<>>)
                 => outbox'[1].params.windlevel = Ceil(p * M, 100)
              /\ (M = 6 /\ fanState[d].Speed = 17 /\ p = 50)
                 => /\ outbox' = <<[devicesn |-> d, method |-> "control",
                                    params |-> [poweron |-> TRUE,
                                                windlevel |-> 3]]>>
                    /\ fanState'[d].Speed = 50
              /\ (M = 6 /\ fanState[d].Speed = 17 /\ p = 75)
                 => /\ Len(outbox') = 1
                    /\ outbox'[1].params.windlevel = 5]_vars

C16_Witness ==
    /\ lastOp = Op("setRotationSpeed", "sn1", 50, NoMsg)
    /\ fanState["sn1"].MaxSpeed = 6
    /\ fanState["sn1"].Speed = 50
    /\ Len(outbox) = 1
    /\ outbox[1].params.windlevel = 3

\* C17: after a "report" frame with windlevel L in 1..MaxSpeed was applied,
\* the level setRotationSpeed derives from the cache,
\* ceil(Speed*MaxSpeed/100), is L.
C17_ReportedLevelRoundTrips ==
    \A d \in DOMAIN fanState :
        (/\ lastOp.op = "message"
         /\ lastOp.msg.kind = "ok"
         /\ lastOp.msg.devicesn = d
         /\ lastOp.msg.method = "report"
         /\ lastOp.msg.key = "windlevel"
         /\ lastOp.msg.level \in 1..fanState[d].MaxSpeed)
        => Ceil(fanState[d].Speed * fanState[d].MaxSpeed, 100) = lastOp.msg.level

\* C18: right after a setRotationSpeed(percent) that returned, a second
\* setRotationSpeed(percent) on the same accessory sends no frame.
C18_RepeatedSetSpeedSendsNothing ==
    (lastOp.op = "setRotationSpeed" /\ ~raised)
    => ~ENABLED (/\ setRotationSpeed(lastOp.sn, lastOp.value, TRUE)
                 /\ outbox' # <<>>)

\* C19: the bucket table is idempotent on every level 0..100: applying it to
\* its own result changes nothing, and 20, 40, 60, 80, 100 map to themselves.
C19_QuantizeIdempotent ==
    /\ lastOp.op = "setRotationSpeed"
       => /\ fanState[lastOp.sn].MaxSpeed = 100
             => ConvertedLevel(lastOp.sn, lastOp.value) = Quantize(lastOp.value)
          /\ Quantize(Quantize(lastOp.value)) = Quantize(lastOp.value)
    /\ \A i \in LevelFrames :
          Quantize(outbox[i].params.windlevel) = outbox[i].params.windlevel
    /\ \A t \in {20, 40, 60, 80, 100} : Quantize(t) = t

\* a level inside a bucket was requested and its target was sent
C19_Witness ==
    /\ lastOp.op = "setRotationSpeed"
    /\ lastOp.value = 35
    /\ Len(outbox) = 1
    /\ outbox[1].params.windlevel = 40

\* C20: for every MaxSpeed in 1..MaxMaxSpeed and every percent 0..100 the
\* level ceil(percent*MaxSpeed/100) that setRotationSpeed works with lies in
\* 0..MaxSpeed, and it does not decrease when the percent grows.
C20_LevelMonotoneAndBounded ==
    [][(lastOp'.op = "setRotationSpeed" /\ ~raised')
       => LET d == lastOp'.sn
              M == fanState[d].MaxSpeed
              old == fanState[d].Speed
              new == lastOp'.value
          IN  /\ Ceil(new * M, 100) \in 0..M
              /\ (old \in 0..100 /\ old <= new)
                 => Ceil(old * M, 100) <= Ceil(new * M, 100)
              /\ (old \in 0..100 /\ new <= old)
                 => Ceil(new * M, 100) <= Ceil(old * M, 100)]_vars

\* the top of the range: 100 percent is the device's highest level
C20_Witness ==
    /\ lastOp.op = "setRotationSpeed"
    /\ lastOp.value = 100
    /\ fanState[lastOp.sn].Speed = 100
    /\ fanState[lastOp.sn].MaxSpeed = MaxMaxSpeed
    /\ CurrLevel(lastOp.sn) = MaxMaxSpeed

====
